---------------------------- MODULE Spec2Model ----------------------------
(***************************************************************************)
(* State-machine model of the earthquake proximity search service:         *)
(* EarthquakeSearchView.post (api/earthquake/views.py) with the Django     *)
(* cache, the EarthquakeSearchResult table and the USGS feed client        *)
(* (api/earthquake/services.py, api/earthquake/utils.py).                  *)
(*                                                                         *)
(* Conventions.  A Python value that may be None is a set with at most one *)
(* element: None is {} and a present value v is {v}.  Distances are whole  *)
(* metres (the float kilometre value times 1000, rounded).  Calendar dates *)
(* are the integers yyyymmdd, so that date order is integer order.  Times  *)
(* are seconds on the clock `now`.                                         *)
(***************************************************************************)
EXTENDS Integers, Sequences, FiniteSets, TLC

(***************************************************************************)
(* Bounds of the model.                                                    *)
(***************************************************************************)
MaxCalls == 2        \* invocations of post started in one concurrent behaviour
MaxSeqCalls == 3     \* invocations of post started in one sequential behaviour
MaxTicks == 1        \* clock advances in one behaviour
TickSeconds == 3600  \* seconds per clock advance
MaxFeatures == 2     \* features in one feed payload
MaxCandidates == 3   \* features in one payload given to the selector on its own
MaxSelects == 3      \* calls of the selector on its own in one behaviour
MaxCityCalls == 3    \* invocations of CityView.post started in one behaviour

Workers == <<"w1", "w2">>   \* request workers that may run post concurrently
Procs == {Workers[i] : i \in 1..Len(Workers)}

None == {}
Some(v) == {v}
Val(o) == CHOOSE v \in o : TRUE

(***************************************************************************)
(* Program constants.                                                      *)
(***************************************************************************)
CACHE_TIMEOUT == 3600          \* cache.set(cache_key, ..., 3600)
Inf == 1000000000              \* float("inf"), above every distance in metres
HTTP_200_OK == 200
HTTP_201_CREATED == 201
HTTP_400_BAD_REQUEST == 400
HTTP_404_NOT_FOUND == 404
HTTP_500_INTERNAL_SERVER_ERROR == 500   \* Django's answer to an unhandled exception
HTTP_502_BAD_GATEWAY == 502

(***************************************************************************)
(* The City table.  Cities are created by CityView.post; the search core   *)
(* only reads them.  latitude/longitude are DecimalField(9, 6).            *)
(***************************************************************************)
City ==
    { [id |-> 1, name |-> "Los Angeles",
       latitude |-> "34.000000", longitude |-> "-118.250000"] }

(***************************************************************************)
(* Request bodies.  request.data.get(k) is None for an absent key; Absent  *)
(* stands for that None among the raw (string) values of a field.          *)
(***************************************************************************)
Absent == "<absent>"

CityIdValues == {Absent, "1", "99", "abc"}
StartValues == {Absent, "", "2021-06-01", "2021-6-1", "2021-07-05",
                "2021-02-30", "garbage"}
EndValues == {Absent, "2021-06-01", "2021-07-05", "garbage"}

\* Every request body of the model.
Requests == [city_id : CityIdValues, start : StartValues, end : EndValues]

\* Well-formed bodies for the known city: two spellings of one triple, and a
\* second triple.
CoreRequests ==
    { [city_id |-> "1", start |-> "2021-06-01", end |-> "2021-07-05"],
      [city_id |-> "1", start |-> "2021-6-1", end |-> "2021-07-05"],
      [city_id |-> "1", start |-> "2021-06-01", end |-> "2021-06-01"] }

\* The same and two bodies that validation rejects: an unknown city, and a
\* start date after the end date.
SeqRequests ==
    CoreRequests \cup
        { [city_id |-> "99", start |-> "2021-06-01", end |-> "2021-07-05"],
          [city_id |-> "1", start |-> "2021-07-05", end |-> "2021-06-01"] }

\* Python truthiness of a raw request value: None and "" are falsy.
Truthy(v) == v \notin {Absent, ""}

\* Django's AutoField.to_python / get_prep_value: int(value), ValueError
\* ("Field 'id' expected a number but got ...") for a non-numeric string.
to_python_raises(s) == s \notin {"1", "99"}
to_python(s) == CASE s = "1" -> 1 [] s = "99" -> 99

\* City.objects.get(id=city_id): the city, or None for City.DoesNotExist.
CityGet(city_id) ==
    LET hit == {c \in City : c.id = to_python(city_id)}
    IN  IF hit = {} THEN None ELSE Some(CHOOSE c \in hit : TRUE)

\* django.utils.dateparse.parse_date: a date for a well formatted real date
\* (the month and day may have one digit), None for a string that is not
\* well formatted, ValueError for a well formatted string that is no date.
ParseDateRaises(s) == s = "2021-02-30"
parse_date(s) ==
    CASE s \in {"2021-06-01", "2021-6-1"} -> Some(20210601)
      [] s = "2021-07-05" -> Some(20210705)
      [] OTHER -> None

\* date.isoformat()
isoformat(d) ==
    CASE d = 20210601 -> "2021-06-01"
      [] d = 20210705 -> "2021-07-05"

(***************************************************************************)
(* Input validation of EarthquakeSearchView.post: the response it returns  *)
(* early, the exception it lets escape, or "ok".                           *)
(***************************************************************************)
Rejected(status, error) == [kind |-> "response", status |-> status, error |-> error]
Raised(exc) == [kind |-> "exception", status |-> HTTP_500_INTERNAL_SERVER_ERROR, error |-> exc]
Passed == [kind |-> "ok", status |-> 0, error |-> ""]

\* (mutant of InvalidRange: the order of the two dates not compared)
InvalidRange_Unordered(start_date, end_date) ==
    start_date = None \/ end_date = None

\* Line 192: not start_date or not end_date or start_date > end_date
InvalidRange(start_date, end_date) ==
    start_date = None \/ end_date = None \/ Val(start_date) > Val(end_date)

\* (mutant of Validation: the dates checked before the city is looked up)
Validation_DatesFirst(city_id, start_str, end_str) ==
    IF ~(Truthy(city_id) /\ Truthy(start_str) /\ Truthy(end_str))
    THEN Rejected(HTTP_400_BAD_REQUEST, "Must provide city_id, start, and end in request body")
    ELSE IF ParseDateRaises(start_str) \/ ParseDateRaises(end_str) THEN Raised("ValueError")
    ELSE IF InvalidRange(parse_date(start_str), parse_date(end_str))
    THEN Rejected(HTTP_400_BAD_REQUEST, "Invalid start/end date")
    ELSE IF to_python_raises(city_id) THEN Raised("ValueError")
    ELSE IF CityGet(city_id) = None
    THEN Rejected(HTTP_404_NOT_FOUND, "City not found")
    ELSE Passed

Validation(city_id, start_str, end_str) ==
    IF ~(Truthy(city_id) /\ Truthy(start_str) /\ Truthy(end_str))
    THEN Rejected(HTTP_400_BAD_REQUEST, "Must provide city_id, start, and end in request body")
    ELSE IF to_python_raises(city_id) THEN Raised("ValueError")
    ELSE IF CityGet(city_id) = None
    THEN Rejected(HTTP_404_NOT_FOUND, "City not found")
    ELSE IF ParseDateRaises(start_str) \/ ParseDateRaises(end_str) THEN Raised("ValueError")
    ELSE LET start_date == parse_date(start_str)
             end_date == parse_date(end_str)
         IN  IF InvalidRange(start_date, end_date)
             THEN Rejected(HTTP_400_BAD_REQUEST, "Invalid start/end date")
             ELSE Passed

\* (mutant of CacheKey: the end date left out of the key)
CacheKey_NoEnd(city_id, start_str, end_str) ==
    "earthquake:" \o city_id \o ":" \o start_str

\* cache_key = f"earthquake:{city_id}:{start_str}:{end_str}"
CacheKey(city_id, start_str, end_str) ==
    "earthquake:" \o city_id \o ":" \o start_str \o ":" \o end_str

(***************************************************************************)
(* The USGS feed.  A feature is a GeoJSON feature: geometry.coordinates is *)
(* [lon, lat, depth] (floats, written as decimal strings), properties has  *)
(* place, mag and time (epoch milliseconds, written as a decimal string).  *)
(* East and West lie at the same great-circle distance from the city;      *)
(* North is a little farther on the sphere and a little nearer on the      *)
(* WGS-84 ellipsoid.                                                       *)
(***************************************************************************)
Feature(lon, lat, place, mag, time) ==
    [geometry |-> [coordinates |-> <<lon, lat, "10.0">>],
     properties |-> [place |-> place, mag |-> mag, time |-> time]]

East == Feature("-118.0", "34.0", "East Quake", "5.7", "1625053800000")
West == Feature("-118.5", "34.0", "West Quake", "5.2", "1622548800000")
North == Feature("-118.25", "34.2075", "North Quake", "6.1", "1623844800000")
Features == {East, West, North}

\* The sequences of n distinct elements of S.
RECURSIVE SeqsOfLen(_, _)
SeqsOfLen(S, n) ==
    IF n = 0 THEN {<<>>}
    ELSE {t \in {Append(s, x) : s \in SeqsOfLen(S, n - 1), x \in S} :
             \A i \in 1..(n - 1) : t[i] # t[n]}

\* What response.json() can be: a feature collection of up to MaxFeatures
\* distinct features in any order, or a JSON object that has no "features"
\* member.
NoFeaturesPayload == [type |-> "FeatureCollection"]
FeedPayloads ==
    {[features |-> s] : s \in UNION {SeqsOfLen(Features, n) : n \in 0..MaxFeatures}}
        \cup {NoFeaturesPayload}

\* float(x) of a Decimal(9, 6) coordinate or of a float.
float(x) ==
    CASE x = "34.000000" -> "34.0"
      [] x = "-118.250000" -> "-118.25"
      [] OTHER -> x

\* utils.calculate_distance: haversine on the sphere of radius 6371 km.
calculate_distance(lat1, lon1, lat2, lon2) ==
    LET k == <<float(lat1), float(lon1), float(lat2), float(lon2)>>
    IN  CASE k = <<"34.0", "-118.25", "34.0", "-118.0">> -> 23046
          [] k = <<"34.0", "-118.25", "34.0", "-118.5">> -> 23046
          [] k = <<"34.0", "-118.25", "34.2075", "-118.25">> -> 23073

\* geopy.distance.geodesic((lat1, lon1), (lat2, lon2)).km: WGS-84 ellipsoid.
geodesic(lat1, lon1, lat2, lon2) ==
    LET k == <<float(lat1), float(lon1), float(lat2), float(lon2)>>
    IN  CASE k = <<"34.0", "-118.25", "34.0", "-118.0">> -> 23096
          [] k = <<"34.0", "-118.25", "34.0", "-118.5">> -> 23096
          [] k = <<"34.0", "-118.25", "34.2075", "-118.25">> -> 23017

\* datetime.utcfromtimestamp(props["time"] / 1000.0)
utcfromtimestamp(ms) ==
    CASE ms = "1625053800000" -> "2021-06-30T10:30:00"
      [] ms = "1622548800000" -> "2021-06-01T12:00:00"
      [] ms = "1623844800000" -> "2021-06-16T12:00:00"

\* (mutant of NearestScan: a candidate as near as the running minimum replaces it)
RECURSIVE NearestScan_LastWins(_, _, _, _, _, _)
NearestScan_LastWins(city_lat, city_lon, features, i, min_dist, nearest) ==
    IF i > Len(features) THEN nearest
    ELSE LET feature == features[i]
             coords == feature.geometry.coordinates
             dist == calculate_distance(city_lat, city_lon, coords[2], coords[1])
         IN  IF dist <= min_dist
             THEN NearestScan_LastWins(city_lat, city_lon, features, i + 1, dist,
                                       Some(feature))
             ELSE NearestScan_LastWins(city_lat, city_lon, features, i + 1, min_dist,
                                       nearest)

\* The loop of find_nearest_earthquake from feature i on (1-based).
RECURSIVE NearestScan(_, _, _, _, _, _)
NearestScan(city_lat, city_lon, features, i, min_dist, nearest) ==
    IF i > Len(features) THEN nearest
    ELSE LET feature == features[i]
             coords == feature.geometry.coordinates
             eq_lon == coords[1]
             eq_lat == coords[2]
             dist == calculate_distance(city_lat, city_lon, eq_lat, eq_lon)
         IN  IF dist < min_dist
             THEN NearestScan(city_lat, city_lon, features, i + 1, dist, Some(feature))
             ELSE NearestScan(city_lat, city_lon, features, i + 1, min_dist, nearest)

\* services.find_nearest_earthquake: the nearest feature, or None.
find_nearest_earthquake(city_lat, city_lon, earthquakes) ==
    IF "features" \notin DOMAIN earthquakes THEN None
    ELSE IF earthquakes.features = <<>> THEN None
    ELSE NearestScan(city_lat, city_lon, earthquakes.features, 1, Inf, None)

(***************************************************************************)
(* EarthquakeSearchResult rows and their serialization.  created_at (set   *)
(* by the database layer on insert, read by no operation of the core) is   *)
(* left out of the rows.                                                   *)
(***************************************************************************)
\* The unsaved instance post builds from the selected feature (id None).
\* (mutant of NewRecord: the distance not computed)
NewRecord_NoDistance(city, start_date, end_date, nearest) ==
    [id |-> None, city |-> city.id, start_date |-> start_date, end_date |-> end_date,
     raw_earthquake_data |-> nearest,
     nearest_earthquake_location |->
        IF nearest # None THEN Some(Val(nearest).properties.place) ELSE None,
     nearest_earthquake_magnitude |->
        IF nearest # None THEN Some(Val(nearest).properties.mag) ELSE None,
     nearest_earthquake_time |->
        IF nearest # None THEN Some(utcfromtimestamp(Val(nearest).properties.time)) ELSE None,
     distance_km |-> None]

\* (mutant of NewRecord: the event's magnitude not copied to the row)
NewRecord_NoMagnitude(city, start_date, end_date, nearest) ==
    [id |-> None, city |-> city.id, start_date |-> start_date, end_date |-> end_date,
     raw_earthquake_data |-> nearest,
     nearest_earthquake_location |->
        IF nearest # None THEN Some(Val(nearest).properties.place) ELSE None,
     nearest_earthquake_magnitude |-> None,
     nearest_earthquake_time |->
        IF nearest # None THEN Some(utcfromtimestamp(Val(nearest).properties.time)) ELSE None,
     distance_km |->
        IF nearest # None
        THEN Some(geodesic(city.latitude, city.longitude,
                           Val(nearest).geometry.coordinates[2],
                           Val(nearest).geometry.coordinates[1]))
        ELSE None]

NewRecord(city, start_date, end_date, nearest) ==
    [id |-> None, city |-> city.id, start_date |-> start_date, end_date |-> end_date,
     raw_earthquake_data |-> nearest,
     nearest_earthquake_location |->
        IF nearest # None THEN Some(Val(nearest).properties.place) ELSE None,
     nearest_earthquake_magnitude |->
        IF nearest # None THEN Some(Val(nearest).properties.mag) ELSE None,
     nearest_earthquake_time |->
        IF nearest # None THEN Some(utcfromtimestamp(Val(nearest).properties.time)) ELSE None,
     distance_km |->
        IF nearest # None
        THEN Some(geodesic(city.latitude, city.longitude,
                           Val(nearest).geometry.coordinates[2],
                           Val(nearest).geometry.coordinates[1]))
        ELSE None]

\* EarthquakeSearchResult.verbose_msg: the sentence's parts, or "No results
\* found" when raw_earthquake_data has no 'properties' (the KeyError).
verbose_msg(rec) ==
    IF rec.raw_earthquake_data = None
    THEN [found |-> FALSE, mag |-> None, distance_km |-> None, place |-> None, time |-> None]
    ELSE [found |-> TRUE,
          mag |-> Some(Val(rec.raw_earthquake_data).properties.mag),
          distance_km |-> rec.distance_km,
          place |-> Some(Val(rec.raw_earthquake_data).properties.place),
          time |-> rec.nearest_earthquake_time]

\* EarthquakeSearchResultSerializer(rec).data: every model field except the
\* write-only raw_earthquake_data, plus city_name and verbose_msg.
Serialize(rec) ==
    [id |-> rec.id, city |-> rec.city,
     city_name |-> (CHOOSE c \in City : c.id = rec.city).name,
     start_date |-> isoformat(rec.start_date), end_date |-> isoformat(rec.end_date),
     nearest_earthquake_location |-> rec.nearest_earthquake_location,
     nearest_earthquake_magnitude |-> rec.nearest_earthquake_magnitude,
     nearest_earthquake_time |-> rec.nearest_earthquake_time,
     distance_km |-> rec.distance_km,
     verbose_msg |-> verbose_msg(rec)]

\* (mutant of Filter: the start date compared with both columns)
Filter_StartTwice(rows, city, start_date, end_date) ==
    {r \in rows : r.city = city.id /\ r.start_date = start_date /\ r.end_date = start_date}

\* (mutant of Filter: the two dates taken for one another)
Filter_Swapped(rows, city, start_date, end_date) ==
    {r \in rows : r.city = city.id /\ r.start_date = end_date /\ r.end_date = start_date}

\* (mutant of Filter: the end date left out of the lookup)
Filter_NoEndDate(rows, city, start_date, end_date) ==
    {r \in rows : r.city = city.id /\ r.start_date = start_date}

\* (mutant of Filter: the lookup by city alone)
Filter_CityOnly(rows, city, start_date, end_date) ==
    {r \in rows : r.city = city.id}

\* EarthquakeSearchResult.objects.filter(city, start_date, end_date)
Filter(rows, city, start_date, end_date) ==
    {r \in rows : r.city = city.id /\ r.start_date = start_date /\ r.end_date = end_date}

\* QuerySet.first() of an unordered queryset: the row of least primary key.
First(rows) ==
    IF rows = {} THEN None
    ELSE Some(CHOOSE r \in rows : \A q \in rows : Val(r.id) <= Val(q.id))

(***************************************************************************)
(* The Django cache: key -> [value, expires_at].  An entry is gone once    *)
(* the clock reaches expires_at.                                           *)
(***************************************************************************)
\* (mutant of cache_get: the expiry test inverted)
cache_get_Inverted(entries, key, t) ==
    IF key \in DOMAIN entries /\ t >= entries[key].expires_at
    THEN Some(entries[key].value) ELSE None

cache_get(entries, key, t) ==
    IF key \in DOMAIN entries /\ t < entries[key].expires_at
    THEN Some(entries[key].value) ELSE None

\* (mutant of cache_set: the entry lives from the epoch, not from the write)
cache_set_FromEpoch(entries, key, value, timeout, t) ==
    [k \in DOMAIN entries \cup {key} |->
        IF k = key THEN [value |-> value, expires_at |-> timeout] ELSE entries[k]]

\* (mutant of cache_set: a cache of one slot, a write drops the other entries)
cache_set_OneSlot(entries, key, value, timeout, t) ==
    [k \in {key} |-> [value |-> value, expires_at |-> t + timeout]]

cache_set(entries, key, value, timeout, t) ==
    [k \in DOMAIN entries \cup {key} |->
        IF k = key THEN [value |-> value, expires_at |-> t + timeout] ELSE entries[k]]

(***************************************************************************)
(* State.                                                                  *)
(***************************************************************************)
VARIABLES
    store,      \* the EarthquakeSearchResult table: a set of rows
    next_id,    \* the table's next primary key
    cache,      \* the Django cache
    now,        \* the clock, in seconds
    ticks,      \* clock advances so far
    calls,      \* invocations of post started so far
    pc,         \* per worker: where its invocation of post stands
    local,      \* per worker: the local variables of post
    resp,       \* per worker: the Response post returned, None before it returns
    ops,        \* per worker: the external calls its invocation has made so far
    hist,       \* per worker: history of its invocation
    resolved,   \* per triple: the content of its first successful response (history)
    before,     \* SpecSeq only: the state the current invocation started in (history)
    sel,        \* SpecSelect only: the selector's last call, None before the first
    cityview    \* SpecCity only: the City table and the invocations of CityView.post

vars ==
    <<store, next_id, cache, now, ticks, calls, pc, local, resp, ops, hist, resolved,
      before, sel, cityview>>

NoLocal ==
    [city_id |-> Absent, start_str |-> Absent, end_str |-> Absent,
     city |-> None, start_date |-> None, end_date |-> None, cache_key |-> "",
     existing_result |-> None, nearest |-> None, new_rec |-> None]

NoOps == [cache_get |-> 0, filter |-> 0, fetch |-> 0, save |-> 0, cache_set |-> 0]

NoHist ==
    [known |-> None,        \* the triple's resolved content when the invocation started
     overlapped |-> FALSE,  \* another invocation was in progress during this one
     feed |-> "none"]       \* the feed's answer: "none" yet, "failed", "empty", "events"

\* Nothing observed yet.
NoBefore ==
    [prev |-> None,    \* triple and status of the invocation that ended just before
     store |-> {},     \* the table when the invocation started
     cache |-> <<>>]   \* the cache when the invocation started

Response(data, status) == Some([status |-> status, data |-> data])

\* The triple (city id, start date, end date) of a validated request.
Triple(l) == <<Val(l.city).id, Val(l.start_date), Val(l.end_date)>>

\* The nearest-event and distance content of a serialized result.
Content(data) ==
    [location |-> data.nearest_earthquake_location,
     magnitude |-> data.nearest_earthquake_magnitude,
     time |-> data.nearest_earthquake_time,
     distance_km |-> data.distance_km]

InFlight(q) == pc[q] \notin {"idle", "done"}

\* resolved after worker p has answered `data` successfully.
Resolve(p, data) ==
    IF Triple(local[p]) \in DOMAIN resolved THEN resolved
    ELSE [t \in DOMAIN resolved \cup {Triple(local[p])} |->
             IF t = Triple(local[p]) THEN Content(data) ELSE resolved[t]]

\* The City table as it stands at the start (the next id follows the
\* greatest id in use), and no invocation of CityView.post.
NoCityView ==
    [rows |-> City,
     seq |-> 2,
     calls |-> 0,
     pc |-> [p \in Procs |-> "idle"],
     data |-> [p \in Procs |-> None],
     resp |-> [p \in Procs |-> None]]

Init ==
    /\ store = {}
    /\ next_id = 1
    /\ cache = <<>>
    /\ now = 0
    /\ ticks = 0
    /\ calls = 0
    /\ pc = [p \in Procs |-> "idle"]
    /\ local = [p \in Procs |-> NoLocal]
    /\ resp = [p \in Procs |-> None]
    /\ ops = [p \in Procs |-> NoOps]
    /\ hist = [p \in Procs |-> NoHist]
    /\ resolved = <<>>
    /\ before = NoBefore
    /\ sel = None
    /\ cityview = NoCityView

(***************************************************************************)
(* EarthquakeSearchView.post, one action per step between two external    *)
(* calls.  A worker takes its next request when it is idle or has returned *)
(* the previous response.                                                  *)
(***************************************************************************)
\* Lines 173-193: read the body, validate, fetch the city, parse the dates.
Validate(p, city_id, start_str, end_str) ==
    /\ pc[p] \in {"idle", "done"}
    /\ calls' = calls + 1
    /\ ops' = [ops EXCEPT ![p] = NoOps]
    /\ LET v == Validation(city_id, start_str, end_str)
           raw == [NoLocal EXCEPT !.city_id = city_id, !.start_str = start_str,
                                  !.end_str = end_str]
           l == [raw EXCEPT !.city = CityGet(city_id),
                            !.start_date = parse_date(start_str),
                            !.end_date = parse_date(end_str),
                            !.cache_key = CacheKey(city_id, start_str, end_str)]
           others == {q \in Procs \ {p} : InFlight(q)}
       IN  IF v.kind = "ok"
           THEN /\ pc' = [pc EXCEPT ![p] = "cache_check"]
                /\ local' = [local EXCEPT ![p] = l]
                /\ resp' = [resp EXCEPT ![p] = None]
                /\ hist' = [q \in Procs |->
                       IF q = p
                       THEN [NoHist EXCEPT
                               !.known = IF Triple(l) \in DOMAIN resolved
                                         THEN Some(resolved[Triple(l)]) ELSE None,
                               !.overlapped = others # {}]
                       ELSE IF q \in others THEN [hist[q] EXCEPT !.overlapped = TRUE]
                       ELSE hist[q]]
           ELSE /\ pc' = [pc EXCEPT ![p] = "done"]
                /\ local' = [local EXCEPT ![p] = raw]
                /\ resp' = [resp EXCEPT ![p] = Response([error |-> v.error], v.status)]
                /\ hist' = [hist EXCEPT ![p] = NoHist]
    /\ UNCHANGED <<store, next_id, cache, now, ticks, resolved, sel, cityview>>

\* Lines 195-199: cache.get; a hit is returned at once.
Post_CacheCheck(p) ==
    /\ pc[p] = "cache_check"
    /\ ops' = [ops EXCEPT ![p].cache_get = @ + 1]
    /\ LET cached_data == cache_get(cache, local[p].cache_key, now)
       IN  IF cached_data # None
           THEN /\ pc' = [pc EXCEPT ![p] = "done"]
                /\ resp' = [resp EXCEPT ![p] = Response(Val(cached_data), HTTP_200_OK)]
                /\ resolved' = Resolve(p, Val(cached_data))
           ELSE /\ pc' = [pc EXCEPT ![p] = "store_check"]
                /\ UNCHANGED <<resp, resolved>>
    /\ UNCHANGED <<store, next_id, cache, now, ticks, calls, local, hist, before, sel,
                   cityview>>

\* (mutant of Post_StoreCheck: the feed asked whatever the lookup found)
Post_StoreCheck_Ignored(p) ==
    /\ pc[p] = "store_check"
    /\ ops' = [ops EXCEPT ![p].filter = @ + 1]
    /\ LET existing_result ==
               First(Filter(store, Val(local[p].city), Val(local[p].start_date),
                            Val(local[p].end_date)))
       IN  /\ local' = [local EXCEPT ![p].existing_result = existing_result]
           /\ pc' = [pc EXCEPT ![p] = "feed_fetch"]
    /\ UNCHANGED <<store, next_id, cache, now, ticks, calls, resp, hist, resolved,
                   before, sel, cityview>>

\* Lines 201-206: the lookup of an existing row for the triple.
Post_StoreCheck(p) ==
    /\ pc[p] = "store_check"
    /\ ops' = [ops EXCEPT ![p].filter = @ + 1]
    /\ LET existing_result ==
               First(Filter(store, Val(local[p].city), Val(local[p].start_date),
                            Val(local[p].end_date)))
       IN  /\ local' = [local EXCEPT ![p].existing_result = existing_result]
           /\ pc' = [pc EXCEPT ![p] =
                  IF existing_result # None THEN "store_hit" ELSE "feed_fetch"]
    /\ UNCHANGED <<store, next_id, cache, now, ticks, calls, resp, hist, resolved,
                   before, sel, cityview>>

\* Lines 207-210: serialize the existing row, cache it, return it.
Post_StoreHit(p) ==
    /\ pc[p] = "store_hit"
    /\ ops' = [ops EXCEPT ![p].cache_set = @ + 1]
    /\ LET data == Serialize(Val(local[p].existing_result))
       IN  /\ cache' = cache_set(cache, local[p].cache_key, data, CACHE_TIMEOUT, now)
           /\ resp' = [resp EXCEPT ![p] = Response(data, HTTP_200_OK)]
           /\ resolved' = Resolve(p, data)
    /\ pc' = [pc EXCEPT ![p] = "done"]
    /\ UNCHANGED <<store, next_id, now, ticks, calls, local, hist, before, sel, cityview>>

\* Lines 213-214, 221-238: the feed answers with a payload; select the
\* nearest feature and build the new record (the payload is not used after
\* line 221).
Post_FetchOk(p, eq_data) ==
    /\ pc[p] = "feed_fetch"
    /\ ops' = [ops EXCEPT ![p].fetch = @ + 1]
    /\ LET city == Val(local[p].city)
           nearest == find_nearest_earthquake(city.latitude, city.longitude, eq_data)
           new_rec == NewRecord(city, Val(local[p].start_date), Val(local[p].end_date),
                                nearest)
       IN  local' = [local EXCEPT ![p].nearest = nearest, ![p].new_rec = Some(new_rec)]
    /\ hist' = [hist EXCEPT ![p].feed =
           IF "features" \notin DOMAIN eq_data \/ eq_data.features = <<>>
           THEN "empty" ELSE "events"]
    /\ pc' = [pc EXCEPT ![p] = "persist"]
    /\ UNCHANGED <<store, next_id, cache, now, ticks, calls, resp, resolved, before,
                   sel, cityview>>

\* (mutant of Post_FetchFail: the error response cached like a result)
Post_FetchFail_Cached(p) ==
    /\ pc[p] = "feed_fetch"
    /\ ops' = [ops EXCEPT ![p].fetch = @ + 1]
    /\ pc' = [pc EXCEPT ![p] = "done"]
    /\ resp' = [resp EXCEPT ![p] =
           Response([error |-> "Failed to fetch earthquakes"], HTTP_502_BAD_GATEWAY)]
    /\ cache' = cache_set(cache, local[p].cache_key,
                          [error |-> "Failed to fetch earthquakes"], CACHE_TIMEOUT, now)
    /\ hist' = [hist EXCEPT ![p].feed = "failed"]
    /\ UNCHANGED <<store, next_id, now, ticks, calls, local, resolved, before, sel, cityview>>

\* (mutant of Post_FetchFail: the feed asked a second time after a failure)
Post_FetchFail_Retry(p) ==
    /\ pc[p] = "feed_fetch"
    /\ ops' = [ops EXCEPT ![p].fetch = @ + 1]
    /\ IF ops[p].fetch = 0
       THEN UNCHANGED <<pc, resp, hist>>
       ELSE /\ pc' = [pc EXCEPT ![p] = "done"]
            /\ resp' = [resp EXCEPT ![p] =
                   Response([error |-> "Failed to fetch earthquakes"],
                            HTTP_502_BAD_GATEWAY)]
            /\ hist' = [hist EXCEPT ![p].feed = "failed"]
    /\ UNCHANGED <<store, next_id, cache, now, ticks, calls, local, resolved, before,
                   sel, cityview>>

\* Lines 213-219: fetch_earthquakes raises (network error, timeout, HTTP
\* error status from raise_for_status); post answers 502.
Post_FetchFail(p) ==
    /\ pc[p] = "feed_fetch"
    /\ ops' = [ops EXCEPT ![p].fetch = @ + 1]
    /\ pc' = [pc EXCEPT ![p] = "done"]
    /\ resp' = [resp EXCEPT ![p] =
           Response([error |-> "Failed to fetch earthquakes"], HTTP_502_BAD_GATEWAY)]
    /\ hist' = [hist EXCEPT ![p].feed = "failed"]
    /\ UNCHANGED <<store, next_id, cache, now, ticks, calls, local, resolved, before,
                   sel, cityview>>

\* (mutant of Post_Save: a result without an event is not stored)
Post_Save_SkipEmpty(p) ==
    /\ pc[p] = "persist"
    /\ ops' = [ops EXCEPT ![p].save = @ + 1]
    /\ LET row == [Val(local[p].new_rec) EXCEPT !.id = Some(next_id)]
       IN  /\ store' = IF local[p].nearest = None THEN store ELSE store \cup {row}
           /\ local' = [local EXCEPT ![p].new_rec = Some(row)]
    /\ next_id' = next_id + 1
    /\ pc' = [pc EXCEPT ![p] = "cache_write"]
    /\ UNCHANGED <<cache, now, ticks, calls, resp, hist, resolved, before, sel, cityview>>

\* (mutant of Post_Save: the new row takes the place of the triple's rows)
Post_Save_Replace(p) ==
    /\ pc[p] = "persist"
    /\ ops' = [ops EXCEPT ![p].save = @ + 1]
    /\ LET row == [Val(local[p].new_rec) EXCEPT !.id = Some(next_id)]
           old == {r \in store : /\ r.city = row.city
                                 /\ r.start_date = row.start_date
                                 /\ r.end_date = row.end_date}
       IN  /\ store' = (store \ old) \cup {row}
           /\ local' = [local EXCEPT ![p].new_rec = Some(row)]
    /\ next_id' = next_id + 1
    /\ pc' = [pc EXCEPT ![p] = "cache_write"]
    /\ UNCHANGED <<cache, now, ticks, calls, resp, hist, resolved, before, sel, cityview>>

\* (mutant of Post_Save: the table refuses a second row for a triple)
Post_Save_Unique(p) ==
    /\ pc[p] = "persist"
    /\ ops' = [ops EXCEPT ![p].save = @ + 1]
    /\ LET row == [Val(local[p].new_rec) EXCEPT !.id = Some(next_id)]
           taken == \E r \in store : /\ r.city = row.city
                                     /\ r.start_date = row.start_date
                                     /\ r.end_date = row.end_date
       IN  /\ store' = IF taken THEN store ELSE store \cup {row}
           /\ local' = [local EXCEPT ![p].new_rec = Some(row)]
    /\ next_id' = next_id + 1
    /\ pc' = [pc EXCEPT ![p] = "cache_write"]
    /\ UNCHANGED <<cache, now, ticks, calls, resp, hist, resolved, before, sel, cityview>>

\* (mutant of Post_Save: the insert put off, the record given its id at once)
Post_Save_Deferred(p) ==
    /\ pc[p] = "persist"
    /\ ops' = [ops EXCEPT ![p].save = @ + 1]
    /\ LET row == [Val(local[p].new_rec) EXCEPT !.id = Some(next_id)]
       IN  local' = [local EXCEPT ![p].new_rec = Some(row)]
    /\ next_id' = next_id + 1
    /\ pc' = [pc EXCEPT ![p] = "cache_write"]
    /\ UNCHANGED <<store, cache, now, ticks, calls, resp, hist, resolved, before, sel,
                   cityview>>

\* Line 240: new_rec.save() inserts the row with a fresh id.
Post_Save(p) ==
    /\ pc[p] = "persist"
    /\ ops' = [ops EXCEPT ![p].save = @ + 1]
    /\ LET row == [Val(local[p].new_rec) EXCEPT !.id = Some(next_id)]
       IN  /\ store' = store \cup {row}
           /\ local' = [local EXCEPT ![p].new_rec = Some(row)]
    /\ next_id' = next_id + 1
    /\ pc' = [pc EXCEPT ![p] = "cache_write"]
    /\ UNCHANGED <<cache, now, ticks, calls, resp, hist, resolved, before, sel, cityview>>

\* (mutant of Post_SaveFail: the exception swallowed, post carries on)
Post_SaveFail_Swallowed(p) ==
    /\ pc[p] = "persist"
    /\ ops' = [ops EXCEPT ![p].save = @ + 1]
    /\ pc' = [pc EXCEPT ![p] = "cache_write"]
    /\ UNCHANGED <<store, next_id, cache, now, ticks, calls, local, resp, hist, resolved,
                   before, sel, cityview>>

\* Line 240: new_rec.save() raises (the database refuses or fails the
\* insert); nothing in post catches it, no row is inserted.
Post_SaveFail(p) ==
    /\ pc[p] = "persist"
    /\ ops' = [ops EXCEPT ![p].save = @ + 1]
    /\ pc' = [pc EXCEPT ![p] = "done"]
    /\ resp' = [resp EXCEPT ![p] =
           Response([error |-> "DatabaseError"], HTTP_500_INTERNAL_SERVER_ERROR)]
    /\ UNCHANGED <<store, next_id, cache, now, ticks, calls, local, hist, resolved,
                   before, sel, cityview>>

\* Lines 241-245: serialize the new row, cache it, return it.
Post_CacheWrite(p) ==
    /\ pc[p] = "cache_write"
    /\ ops' = [ops EXCEPT ![p].cache_set = @ + 1]
    /\ LET data == Serialize(Val(local[p].new_rec))
       IN  /\ cache' = cache_set(cache, local[p].cache_key, data, CACHE_TIMEOUT, now)
           /\ resp' = [resp EXCEPT ![p] = Response(data, HTTP_201_CREATED)]
           /\ resolved' = Resolve(p, data)
    /\ pc' = [pc EXCEPT ![p] = "done"]
    /\ UNCHANGED <<store, next_id, now, ticks, calls, local, hist, before, sel, cityview>>

\* Time passes.
Tick ==
    /\ ticks < MaxTicks
    /\ ticks' = ticks + 1
    /\ now' = now + TickSeconds
    /\ UNCHANGED <<store, next_id, cache, calls, pc, local, resp, ops, hist, resolved,
                   before, sel, cityview>>

\* The observer of a sequential run: what the invocation that worker p is
\* about to start finds.
Observe(p) ==
    before' =
        [prev |-> IF pc[p] = "done"
                  THEN Some([triple |-> IF local[p].cache_key # ""
                                        THEN Some(Triple(local[p])) ELSE None,
                             status |-> Val(resp[p]).status])
                  ELSE None,
         store |-> store,
         cache |-> cache]

\* The server hands a request to the first worker that is not busy.
Dispatch(p) ==
    /\ ~InFlight(p)
    /\ \A i, j \in 1..Len(Workers) : (i < j /\ Workers[j] = p) => InFlight(Workers[i])

\* A request with the given body arrives and worker p starts post on it.
Post_Validate(p, body) ==
    /\ calls < MaxCalls
    /\ Dispatch(p)
    /\ Validate(p, body.city_id, body.start, body.end)
    /\ UNCHANGED before

\* The same when the first worker serves every request, one after the other.
Post_ValidateSeq(body) ==
    /\ calls < MaxSeqCalls
    /\ Validate(Workers[1], body.city_id, body.start, body.end)
    /\ Observe(Workers[1])

\* The same for a short run.
Post_ValidateAny(body) ==
    /\ calls < MaxCalls
    /\ Validate(Workers[1], body.city_id, body.start, body.end)
    /\ Observe(Workers[1])

Step(p) ==
    \/ Post_CacheCheck(p)
    \/ Post_StoreCheck(p)
    \/ Post_StoreHit(p)
    \/ \E eq_data \in FeedPayloads : Post_FetchOk(p, eq_data)
    \/ Post_FetchFail(p)
    \/ Post_Save(p)
    \/ Post_CacheWrite(p)

\* Workers run post concurrently, in any interleaving of their steps, on
\* well-formed bodies for a known city.
Next ==
    \/ \E p \in Procs, body \in CoreRequests : Post_Validate(p, body)
    \/ \E p \in Procs : Step(p)
    \/ Tick

Spec == Init /\ [][Next]_vars

\* Non-overlapping invocations: one worker serves the requests one after the
\* other, while time passes.
NextSeq ==
    \/ \E body \in SeqRequests : Post_ValidateSeq(body)
    \/ Step(Workers[1])
    \/ Tick

SpecSeq == Init /\ [][NextSeq]_vars

\* Non-overlapping invocations on every request body, the malformed ones
\* too, on a clock that stands still.
NextAny ==
    \/ \E body \in Requests : Post_ValidateAny(body)
    \/ Step(Workers[1])

SpecAny == Init /\ [][NextAny]_vars

(***************************************************************************)
(* Vocabulary of the claims.                                               *)
(***************************************************************************)
Done(p) == pc[p] = "done"
Status(p) == Val(resp[p]).status
Data(p) == Val(resp[p]).data

\* The rows stored for a triple.
RowsOf(t) == {r \in store : <<r.city, r.start_date, r.end_date>> = t}

\* The cache holds an unexpired entry under key k.
Live(k) == k \in DOMAIN cache /\ now < cache[k].expires_at

\* Worker p takes a step of its invocation.
Moves(p) == pc'[p] # pc[p]

(***************************************************************************)
(* C1.  Cache hit is terminal: when post has passed validation and the     *)
(* cache holds an unexpired entry under the request's key, the invocation  *)
(* returns that payload with status 200 and makes no table lookup, no      *)
(* insert, no feed request and no cache write; the cache, its expiry times *)
(* included, and the table are left as they were.                          *)
(***************************************************************************)
C1_CacheHitTerminal ==
    [][\A p \in Procs :
         (pc[p] = "cache_check" /\ Moves(p) /\ Live(local[p].cache_key)) =>
            /\ pc'[p] = "done"
            /\ resp'[p] = Response(cache[local[p].cache_key].value, HTTP_200_OK)
            /\ ops'[p] = [NoOps EXCEPT !.cache_get = 1]
            /\ cache' = cache
            /\ store' = store
            /\ next_id' = next_id]_vars

\* An invocation has returned from the cache.
C1_Witness ==
    \E p \in Procs :
        /\ Done(p)
        /\ Status(p) = HTTP_200_OK
        /\ ops[p] = [NoOps EXCEPT !.cache_get = 1]
        /\ Live(local[p].cache_key)
        /\ Data(p) = cache[local[p].cache_key].value

(***************************************************************************)
(* C2.  Store hit: when the cache lookup has missed and a row exists for   *)
(* the request's exact triple, the lookup finds a row of that triple; post *)
(* then caches its serialization under the request's key for 3600 seconds  *)
(* and returns it with status 200, with no feed request and no new row.    *)
(***************************************************************************)
C2_StoreHit ==
    [][\A p \in Procs :
         /\ (pc[p] = "store_check" /\ Moves(p) /\ RowsOf(Triple(local[p])) # {}) =>
               /\ pc'[p] = "store_hit"
               /\ local'[p].existing_result # None
               /\ Val(local'[p].existing_result) \in RowsOf(Triple(local[p]))
               /\ store' = store
               /\ cache' = cache
         /\ (pc[p] = "store_hit" /\ Moves(p)) =>
               LET row == Val(local[p].existing_result)
                   key == local[p].cache_key
               IN  /\ pc'[p] = "done"
                   /\ resp'[p] = Response(Serialize(row), HTTP_200_OK)
                   /\ Data(p)'.id = row.id
                   /\ row \in store'
                   /\ <<row.city, row.start_date, row.end_date>> = Triple(local[p])
                   /\ DOMAIN cache' = DOMAIN cache \cup {key}
                   /\ cache'[key] = [value |-> Serialize(row), expires_at |-> now + 3600]
                   /\ \A k \in DOMAIN cache \ {key} : cache'[k] = cache[k]
                   /\ store' = store
                   /\ next_id' = next_id
                   /\ ops'[p] = [NoOps EXCEPT !.cache_get = 1, !.filter = 1,
                                              !.cache_set = 1]]_vars

\* An invocation has returned a row it found in the table.
C2_Witness ==
    \E p \in Procs :
        /\ Done(p)
        /\ Status(p) = HTTP_200_OK
        /\ ops[p] = [NoOps EXCEPT !.cache_get = 1, !.filter = 1, !.cache_set = 1]
        /\ local[p].existing_result # None
        /\ Data(p) = Serialize(Val(local[p].existing_result))

(***************************************************************************)
(* C3 as stated.  When a valid request misses the cache and the table and  *)
(* the feed answers, post creates exactly one new row holding the selected *)
(* event's fields, then writes the cache entry, then returns the row with  *)
(* status 201, and afterwards exactly one row exists for the triple.       *)
(***************************************************************************)
\* The row worker p built holds the fields of the event it selected.
HoldsSelected(p, row) ==
    LET nearest == local[p].nearest
    IN  /\ <<row.city, row.start_date, row.end_date>> = Triple(local[p])
        /\ row.raw_earthquake_data = nearest
        /\ nearest = None =>
              /\ row.nearest_earthquake_location = None
              /\ row.nearest_earthquake_magnitude = None
              /\ row.nearest_earthquake_time = None
              /\ row.distance_km = None
        /\ nearest # None =>
              /\ row.nearest_earthquake_location = Some(Val(nearest).properties.place)
              /\ row.nearest_earthquake_magnitude = Some(Val(nearest).properties.mag)
              /\ row.nearest_earthquake_time =
                     Some(utcfromtimestamp(Val(nearest).properties.time))
              /\ row.distance_km # None

\* Worker p, past the feed's answer: one row inserted, then the cache entry
\* written, then the row returned with 201.
FreshSteps(p) ==
    LET row == Val(local[p].new_rec)
        inserted == /\ ops[p].save = 1
                    /\ row.id # None
                    /\ row \in store
                    /\ \A r \in store : r.id = row.id => r = row
                    /\ HoldsSelected(p, row)
    IN  /\ pc[p] = "persist" =>
              /\ ops[p].save = 0 /\ ops[p].cache_set = 0 /\ resp[p] = None
              /\ HoldsSelected(p, row)
        /\ pc[p] = "cache_write" =>
              inserted /\ ops[p].cache_set = 0 /\ resp[p] = None
        /\ pc[p] = "done" =>
              /\ inserted
              /\ ops[p] = [cache_get |-> 1, filter |-> 1, fetch |-> 1, save |-> 1,
                           cache_set |-> 1]
              /\ Status(p) = HTTP_201_CREATED
              /\ Data(p) = Serialize(row)
              /\ Data(p).id = row.id
              /\ local[p].cache_key \in DOMAIN cache

C3_ExactlyOneRow ==
    \A p \in Procs :
        hist[p].feed \in {"empty", "events"} =>
            /\ FreshSteps(p)
            /\ Done(p) => Cardinality(RowsOf(Triple(local[p]))) = 1

(***************************************************************************)
(* C3, amended.  The same, except for what exists afterwards: at least one *)
(* row exists for the triple, and exactly one when no other invocation was *)
(* in progress during this one; the cache entry then holds the returned    *)
(* row.                                                                    *)
(***************************************************************************)
C3_FreshComputation ==
    \A p \in Procs :
        hist[p].feed \in {"empty", "events"} =>
            /\ FreshSteps(p)
            /\ Done(p) =>
                  /\ Cardinality(RowsOf(Triple(local[p]))) >= 1
                  /\ ~hist[p].overlapped =>
                        /\ Cardinality(RowsOf(Triple(local[p]))) = 1
                        /\ cache[local[p].cache_key].value = Data(p)

\* An invocation nothing overlapped has computed a result from a feed with
\* events and returned it.
C3_Witness ==
    \E p \in Procs :
        /\ Done(p)
        /\ hist[p].feed = "events"
        /\ ~hist[p].overlapped
        /\ Status(p) = HTTP_201_CREATED
        /\ Cardinality(RowsOf(Triple(local[p]))) = 1

(***************************************************************************)
(* C4.  Feed failure aborts cleanly: when fetch_earthquakes fails, post    *)
(* returns 502 having created no row and written no cache entry, the table *)
(* and the cache being what they were when it started; and the invocation  *)
(* that follows a 502 for the same triple asks the feed again.             *)
(***************************************************************************)
C4_FeedFailureAborts ==
    LET p == Workers[1]
    IN  /\ hist[p].feed = "failed" =>
              /\ Done(p)
              /\ Status(p) = HTTP_502_BAD_GATEWAY
              /\ ops[p].save = 0 /\ ops[p].cache_set = 0
              /\ store = before.store
              /\ cache = before.cache
        /\ (/\ Done(p)
            /\ local[p].cache_key # ""
            /\ before.prev = Some([triple |-> Some(Triple(local[p])),
                                   status |-> HTTP_502_BAD_GATEWAY])) =>
              ops[p].fetch = 1

\* The feed has failed, and the next invocation, for the same triple, has
\* asked it again and got an answer.
C4_Witness ==
    LET p == Workers[1]
    IN  /\ Done(p)
        /\ local[p].cache_key # ""
        /\ before.prev = Some([triple |-> Some(Triple(local[p])),
                               status |-> HTTP_502_BAD_GATEWAY])
        /\ ops[p].fetch = 1
        /\ Status(p) = HTTP_201_CREATED

(***************************************************************************)
(* Request bodies, as the claims class them.                               *)
(***************************************************************************)
\* The body lacks a field: the field is absent or empty.
Lacks(l) == \E v \in {l.city_id, l.start_str, l.end_str} : v \in {Absent, ""}

\* The city identifier is a number / the number of a city.
WellFormedId(city_id) == city_id \in {"1", "99"}
KnownCity(city_id) == WellFormedId(city_id) /\ \E c \in City : c.id = to_python(city_id)

\* The string names a calendar date.
IsDate(s) == s \in {"2021-06-01", "2021-6-1", "2021-07-05"}
DateOf(s) == CASE s \in {"2021-06-01", "2021-6-1"} -> 20210601
               [] s = "2021-07-05" -> 20210705

\* The body has every field, and one that is malformed.
Malformed(l) ==
    /\ ~Lacks(l)
    /\ ~WellFormedId(l.city_id) \/ ~IsDate(l.start_str) \/ ~IsDate(l.end_str)

\* The body post answers with a validation error: a field is missing, the
\* city is unknown, a date cannot be parsed, or the start is after the end.
ValidationError(l) ==
    \/ Lacks(l)
    \/ ~Lacks(l) /\ WellFormedId(l.city_id) /\ ~KnownCity(l.city_id)
    \/ /\ ~Lacks(l) /\ KnownCity(l.city_id)
       /\ "garbage" \in {l.start_str, l.end_str}
       /\ "2021-02-30" \notin {l.start_str, l.end_str}
    \/ /\ ~Lacks(l) /\ KnownCity(l.city_id)
       /\ IsDate(l.start_str) /\ IsDate(l.end_str)
       /\ DateOf(l.start_str) > DateOf(l.end_str)

(***************************************************************************)
(* C5.  Rejected requests touch nothing: an invocation that ends in a      *)
(* validation error (a missing field, an unknown city, an unparsable date, *)
(* or a start after the end) returns at once, having read and written      *)
(* neither the cache nor the table and not asked the feed; the table and   *)
(* the cache are what they were when it started.                           *)
(***************************************************************************)
C5_RejectedTouchNothing ==
    LET p == Workers[1]
    IN  (pc[p] # "idle" /\ ValidationError(local[p])) =>
            /\ Done(p)
            /\ Status(p) \in {HTTP_400_BAD_REQUEST, HTTP_404_NOT_FOUND}
            /\ ops[p] = NoOps
            /\ store = before.store
            /\ cache = before.cache

\* A request whose start is after its end has been rejected while the table
\* and the cache hold a result.
C5_Witness ==
    LET p == Workers[1]
    IN  /\ Done(p)
        /\ ~Lacks(local[p]) /\ KnownCity(local[p].city_id)
        /\ IsDate(local[p].start_str) /\ IsDate(local[p].end_str)
        /\ DateOf(local[p].start_str) > DateOf(local[p].end_str)
        /\ Status(p) = HTTP_400_BAD_REQUEST
        /\ store # {}
        /\ cache # <<>>

(***************************************************************************)
(* C6.  Error classification and precedence, for requests whose city       *)
(* identifier is a number: a request lacking any of city_id, start, end is *)
(* answered 400; otherwise one whose city_id matches no City is answered   *)
(* 404, whatever its dates are; otherwise one whose dates are calendar     *)
(* dates with the start after the end is answered 400; and one whose dates *)
(* are calendar dates with the start not after the end is not rejected: it *)
(* goes on to the lookups and ends with 200, 201 or 502.                   *)
(***************************************************************************)
C6_ErrorPrecedence ==
    LET p == Workers[1]
        l == local[p]
    IN  pc[p] # "idle" =>
          /\ Lacks(l) => Done(p) /\ Status(p) = HTTP_400_BAD_REQUEST
          /\ (~Lacks(l) /\ WellFormedId(l.city_id) /\ ~KnownCity(l.city_id)) =>
                Done(p) /\ Status(p) = HTTP_404_NOT_FOUND
          /\ (~Lacks(l) /\ KnownCity(l.city_id) /\ IsDate(l.start_str) /\ IsDate(l.end_str)) =>
                IF DateOf(l.start_str) > DateOf(l.end_str)
                THEN Done(p) /\ Status(p) = HTTP_400_BAD_REQUEST
                ELSE Done(p) =>
                        Status(p) \in {HTTP_200_OK, HTTP_201_CREATED, HTTP_502_BAD_GATEWAY}

\* A request for an unknown city whose start is no date has been answered
\* 404.
C6_Witness ==
    LET p == Workers[1]
    IN  /\ Done(p)
        /\ local[p].city_id = "99"
        /\ local[p].start_str = "garbage"
        /\ local[p].end_str = "2021-07-05"
        /\ Status(p) = HTTP_404_NOT_FOUND

(***************************************************************************)
(* C7.  Malformed input is InvalidInput: a request that has every field and *)
(* whose city identifier or start or end date is malformed is answered     *)
(* with one of the declared errors, 400, or 404 when its city identifier   *)
(* is the number of no city.                                               *)
(***************************************************************************)
C7_MalformedIsInvalidInput ==
    LET p == Workers[1]
        l == local[p]
    IN  (pc[p] # "idle" /\ Malformed(l)) =>
            /\ Done(p)
            /\ Status(p) \in {HTTP_400_BAD_REQUEST, HTTP_404_NOT_FOUND}
            /\ Status(p) = HTTP_404_NOT_FOUND =>
                  WellFormedId(l.city_id) /\ ~KnownCity(l.city_id)

(***************************************************************************)
(* C8.  Empty-result caching: when the feed answers with no event, post    *)
(* stores a row whose location, magnitude, time and distance are all       *)
(* absent, caches it and returns it with 201; an invocation for a triple   *)
(* already resolved to the empty result returns the empty result with 200  *)
(* and does not ask the feed.                                              *)
(***************************************************************************)
EmptyContent ==
    [location |-> None, magnitude |-> None, time |-> None, distance_km |-> None]

C8_EmptyResultCached ==
    LET p == Workers[1]
        row == Val(local[p].new_rec)
    IN  /\ (Done(p) /\ hist[p].feed = "empty") =>
              /\ Status(p) = HTTP_201_CREATED
              /\ row \in store
              /\ row.nearest_earthquake_location = None
              /\ row.nearest_earthquake_magnitude = None
              /\ row.nearest_earthquake_time = None
              /\ row.distance_km = None
              /\ Data(p).id = row.id
              /\ Content(Data(p)) = EmptyContent
              /\ ~Data(p).verbose_msg.found
              /\ local[p].cache_key \in DOMAIN cache
              /\ cache[local[p].cache_key].value = Data(p)
        /\ hist[p].known = Some(EmptyContent) =>
              /\ ops[p].fetch = 0
              /\ pc[p] \in {"cache_check", "store_check", "store_hit", "done"}
              /\ Done(p) => /\ Status(p) = HTTP_200_OK
                            /\ Content(Data(p)) = EmptyContent

\* A triple resolved to the empty result has been asked for again after its
\* cache entry expired, and answered from the table.
C8_Witness ==
    LET p == Workers[1]
    IN  /\ Done(p)
        /\ hist[p].known = Some(EmptyContent)
        /\ ops[p].filter = 1
        /\ Status(p) = HTTP_200_OK
        /\ now >= 3600

(***************************************************************************)
(* C9.  Idempotent resolution: once a triple has been answered             *)
(* successfully, every later invocation for it that overlaps no other      *)
(* returns the same nearest-event and distance content with status 200     *)
(* and does not ask the feed.                                              *)
(***************************************************************************)
C9_IdempotentResolution ==
    LET p == Workers[1]
    IN  hist[p].known # None =>
            /\ ops[p].fetch = 0 /\ ops[p].save = 0
            /\ pc[p] \in {"cache_check", "store_check", "store_hit", "done"}
            /\ Done(p) => /\ Status(p) = HTTP_200_OK
                          /\ Content(Data(p)) = Val(hist[p].known)

\* A triple resolved to an event has been asked for again under another
\* spelling of its start date, and answered from the table.
C9_Witness ==
    LET p == Workers[1]
    IN  /\ Done(p)
        /\ hist[p].known # None
        /\ Val(hist[p].known) # EmptyContent
        /\ local[p].start_str = "2021-6-1"
        /\ ops[p].filter = 1
        /\ Status(p) = HTTP_200_OK

(***************************************************************************)
(* C10.  The documented race: two invocations for one triple that both     *)
(* miss the cache and the table each insert a row; the table then holds    *)
(* two rows for the triple, under different ids, and keeps them.           *)
(***************************************************************************)
C10_RaceLeavesTwoRows ==
    /\ \A r, q \in store : r.id = q.id => r = q
    /\ \A p, q \in Procs :
          (/\ p # q
           /\ ops[p].save = 1 /\ ops[q].save = 1
           /\ Triple(local[p]) = Triple(local[q])) =>
              /\ Val(local[p].new_rec) \in RowsOf(Triple(local[p]))
              /\ Val(local[q].new_rec) \in RowsOf(Triple(local[p]))
              /\ Val(local[p].new_rec).id # Val(local[q].new_rec).id
              /\ Cardinality(RowsOf(Triple(local[p]))) >= 2

\* Two overlapping invocations for one triple have both returned 201, each
\* with a row of its own.
C10_Witness ==
    \E p, q \in Procs :
        /\ p # q
        /\ Done(p) /\ Done(q)
        /\ Status(p) = HTTP_201_CREATED /\ Status(q) = HTTP_201_CREATED
        /\ Triple(local[p]) = Triple(local[q])
        /\ Data(p).id # Data(q).id
        /\ Cardinality(RowsOf(Triple(local[p]))) = 2

(***************************************************************************)
(* C11.  Uniqueness per triple under sequential use: after any sequence of *)
(* invocations of post that do not overlap, successful or failing, with    *)
(* the cache entries expiring in between or not, the table holds at most   *)
(* one row per (city, start_date, end_date).                               *)
(***************************************************************************)
C11_UniquePerTriple ==
    \A r, q \in store :
        (r.city = q.city /\ r.start_date = q.start_date /\ r.end_date = q.end_date) =>
            r = q

\* A triple has been resolved, an invocation has failed, the cache entry has
\* expired, and the triple has been asked for again and found in the table.
C11_Witness ==
    LET p == Workers[1]
    IN  /\ Done(p)
        /\ calls = MaxSeqCalls
        /\ now >= 3600
        /\ before.prev # None
        /\ Val(before.prev).status \in {HTTP_400_BAD_REQUEST, HTTP_404_NOT_FOUND,
                                       HTTP_502_BAD_GATEWAY}
        /\ ops[p].filter = 1 /\ ops[p].fetch = 0
        /\ Status(p) = HTTP_200_OK
        /\ Cardinality(RowsOf(Triple(local[p]))) = 1

(***************************************************************************)
(* C12.  Step ordering within one invocation of post: the cache lookup     *)
(* comes before the table lookup, the table lookup before the feed         *)
(* request, the feed request before the insert, and the insert before the  *)
(* cache write that follows it; each is made at most once; and the feed is *)
(* asked only after the cache lookup found no live entry and the table     *)
(* lookup found no row.                                                    *)
(***************************************************************************)
C12_StepOrdering ==
    [][\A p \in Procs :
         /\ ops'[p].cache_get > ops[p].cache_get =>
               /\ ops[p] = NoOps
               /\ Live(local[p].cache_key) => pc'[p] = "done"
         /\ ops'[p].filter > ops[p].filter =>
               /\ ops[p] = [NoOps EXCEPT !.cache_get = 1]
               /\ RowsOf(Triple(local[p])) # {} => pc'[p] = "store_hit"
         /\ ops'[p].fetch > ops[p].fetch =>
               /\ ops[p] = [NoOps EXCEPT !.cache_get = 1, !.filter = 1]
               /\ local[p].existing_result = None
         /\ ops'[p].save > ops[p].save =>
               ops[p] = [NoOps EXCEPT !.cache_get = 1, !.filter = 1, !.fetch = 1]
         /\ ops'[p].cache_set > ops[p].cache_set =>
               \/ /\ ops[p] = [NoOps EXCEPT !.cache_get = 1, !.filter = 1, !.fetch = 1,
                                            !.save = 1]
                  /\ Val(local[p].new_rec) \in store
               \/ /\ ops[p] = [NoOps EXCEPT !.cache_get = 1, !.filter = 1]
                  /\ local[p].existing_result # None]_vars

\* An invocation stands between its insert and its cache write.
C12_Witness ==
    \E p \in Procs :
        /\ pc[p] = "cache_write"
        /\ ops[p] = [NoOps EXCEPT !.cache_get = 1, !.filter = 1, !.fetch = 1, !.save = 1]
        /\ Val(local[p].new_rec) \in store
        /\ local[p].cache_key \notin DOMAIN cache

(***************************************************************************)
(* C13.  In every row post has created, location, magnitude, time and      *)
(* distance_km are all present or all absent: all present exactly when     *)
(* find_nearest_earthquake returned an event (the row's raw data), all     *)
(* absent exactly when it returned none.                                   *)
(***************************************************************************)
AllPresent(r) ==
    /\ r.nearest_earthquake_location # None
    /\ r.nearest_earthquake_magnitude # None
    /\ r.nearest_earthquake_time # None
    /\ r.distance_km # None

AllAbsent(r) ==
    /\ r.nearest_earthquake_location = None
    /\ r.nearest_earthquake_magnitude = None
    /\ r.nearest_earthquake_time = None
    /\ r.distance_km = None

SelectPayloads ==
    {[features |-> s] : s \in UNION {[1..n -> Features] : n \in 0..MaxCandidates}}
        \cup {NoFeaturesPayload}

Select(city, eq_data) ==
    /\ calls < MaxSelects
    /\ calls' = calls + 1
    /\ LET nearest == find_nearest_earthquake(city.latitude, city.longitude, eq_data)
       IN  sel' = Some([city |-> city, earthquakes |-> eq_data, nearest |-> nearest,
                        new_rec |-> NewRecord(city, 20210601, 20210705, nearest)])
    /\ UNCHANGED <<store, next_id, cache, now, ticks, pc, local, resp, ops, hist,
                   resolved, before, cityview>>

NextSelect == \E city \in City, eq_data \in SelectPayloads : Select(city, eq_data)

SpecSelect == Init /\ [][NextSelect]_vars

\* The selector's distance from the city to a feature.
Dist(city, feature) ==
    calculate_distance(city.latitude, city.longitude,
                       feature.geometry.coordinates[2], feature.geometry.coordinates[1])

\* The payload has no candidate.
NoCandidates(eq_data) == "features" \notin DOMAIN eq_data \/ eq_data.features = <<>>

(***************************************************************************)
(* C14.  find_nearest_earthquake returns None exactly when the payload has *)
(* no 'features' or an empty list of them; otherwise it returns a          *)
(* candidate whose distance to the city is least among all candidates,     *)
(* and, of the candidates at that distance, the first in input order.      *)
(***************************************************************************)
C14_NearestFirstWins ==
    sel # None =>
        LET s == Val(sel)
            f == s.earthquakes.features
        IN  /\ s.nearest = None <=> NoCandidates(s.earthquakes)
            /\ ~NoCandidates(s.earthquakes) =>
                  \E i \in 1..Len(f) :
                      /\ Val(s.nearest) = f[i]
                      /\ \A j \in 1..Len(f) : Dist(s.city, f[i]) <= Dist(s.city, f[j])
                      /\ \A j \in 1..(i - 1) : Dist(s.city, f[j]) > Dist(s.city, f[i])

\* Of three candidates the second and third are equally near and nearer than
\* the first: the second has been returned.
C14_Witness ==
    /\ sel # None
    /\ Val(sel).earthquakes = [features |-> <<North, West, East>>]
    /\ Val(sel).nearest = Some(West)

(***************************************************************************)
(* C15.  Cache entries have a fixed lifetime and are not authoritative:    *)
(* every entry post writes, on the store-hit path and on the fresh path,   *)
(* expires 3600 seconds after the write; a lookup that finds the key's     *)
(* entry expired (or none) is a miss that goes on to the table lookup      *)
(* without answering, and the table lookup finds the row when one is       *)
(* stored for the triple.                                                  *)
(***************************************************************************)
C15_FixedLifetime ==
    [][/\ \A k \in DOMAIN cache' :
             (k \notin DOMAIN cache \/ cache'[k] # cache[k]) =>
                 /\ cache'[k].expires_at = now + 3600
                 /\ \E p \in Procs :
                       /\ k = local[p].cache_key
                       /\ pc[p] \in {"store_hit", "cache_write"}
                       /\ pc'[p] = "done"
       /\ DOMAIN cache \subseteq DOMAIN cache'
       /\ \A p \in Procs :
             /\ (pc[p] = "cache_check" /\ Moves(p) /\ ~Live(local[p].cache_key)) =>
                   /\ pc'[p] = "store_check"
                   /\ resp'[p] = None
                   /\ cache' = cache
             /\ (pc[p] = "store_check" /\ Moves(p) /\ RowsOf(Triple(local[p])) # {}) =>
                   /\ pc'[p] = "store_hit"
                   /\ local'[p].existing_result # None]_vars

\* An invocation has found its key's entry expired, found the row in the
\* table and written the entry again, to expire 3600 seconds later.
C15_Witness ==
    LET p == Workers[1]
        k == local[p].cache_key
    IN  /\ Done(p)
        /\ k \in DOMAIN before.cache
        /\ before.cache[k].expires_at = 3600
        /\ now = 3600
        /\ ops[p].filter = 1
        /\ Status(p) = HTTP_200_OK
        /\ cache[k].expires_at = 7200
        /\ cache[k].value = before.cache[k].value

(***************************************************************************)
(* Sequential use with a database that can fail the insert.                *)
(***************************************************************************)
NextFault ==
    \/ \E body \in SeqRequests : Post_ValidateSeq(body)
    \/ Step(Workers[1])
    \/ Post_SaveFail(Workers[1])
    \/ Tick

SpecFault == Init /\ [][NextFault]_vars

(***************************************************************************)
(* C16.  Store write failure: when the insert of the new row fails, the    *)
(* failure goes to the caller (the exception leaves post), the insert is   *)
(* tried once only, no cache entry is written, and the table holds no row  *)
(* for the triple afterwards; table and cache are what they were when the  *)
(* invocation started.                                                     *)
(***************************************************************************)
\* Worker p's insert has failed: attempted, and the record never got an id.
SaveFailed(p) == ops[p].save >= 1 /\ Val(local[p].new_rec).id = None

C16_StoreWriteFailure ==
    LET p == Workers[1]
    IN  SaveFailed(p) =>
            /\ Done(p)
            /\ Status(p) = HTTP_500_INTERNAL_SERVER_ERROR
            /\ Data(p) = [error |-> "DatabaseError"]
            /\ ops[p] = [NoOps EXCEPT !.cache_get = 1, !.filter = 1, !.fetch = 1,
                                      !.save = 1]
            /\ local[p].cache_key \notin DOMAIN cache \/
                  ~Live(local[p].cache_key)
            /\ cache = before.cache
            /\ store = before.store
            /\ RowsOf(Triple(local[p])) = {}

\* The insert has failed while the table holds a row of another triple.
C16_Witness ==
    LET p == Workers[1]
    IN  /\ SaveFailed(p)
        /\ Done(p)
        /\ store # {}
        /\ RowsOf(Triple(local[p])) = {}

(***************************************************************************)
(* C17.  Same triple, same cache key: two requests that resolve to the     *)
(* same (city, start date, end date) use the same cache key, the key being *)
(* made of the city's id and the two dates in ISO form, however the        *)
(* request spelled them.                                                   *)
(***************************************************************************)
\* Worker p holds a validated request.
Validated(p) == local[p].cache_key # ""

C17_SameTripleSameKey ==
    /\ \A p \in Procs :
          Validated(p) =>
              local[p].cache_key =
                  CacheKey(local[p].city_id, isoformat(Val(local[p].start_date)),
                           isoformat(Val(local[p].end_date)))
    /\ \A p, q \in Procs :
          (Validated(p) /\ Validated(q) /\ Triple(local[p]) = Triple(local[q])) =>
              local[p].cache_key = local[q].cache_key

(***************************************************************************)
(* C18.  Stored results are immutable: once a row is in the table, no step *)
(* of any invocation of post, on the cache-hit, store-hit, fresh or error  *)
(* path, changes or removes it.                                            *)
(***************************************************************************)
C18_RowsImmutable ==
    [][/\ \A r \in store : r \in store'
       /\ \A r \in store' \ store :
             /\ \A q \in store : q.id # r.id
             /\ \E p \in Procs : pc[p] = "persist" /\ pc'[p] = "cache_write"]_vars

\* A row created by one invocation is still stored after a later invocation,
\* for another triple, has failed at the feed.
C18_Witness ==
    \E p \in Procs, r \in store :
        /\ Done(p)
        /\ Status(p) = HTTP_502_BAD_GATEWAY
        /\ calls = MaxCalls
        /\ <<r.city, r.start_date, r.end_date>> # Triple(local[p])

(***************************************************************************)
(* CityView.post (views.py 30-51) on concurrent workers: CitySerializer    *)
(* validates the body, the unique-name check being a query on the City     *)
(* table; serializer.save() inserts the city under the table's UNIQUE      *)
(* constraint on name.                                                     *)
(***************************************************************************)
CityNames == {"Los Angeles", "Tokyo", " Tokyo ", ""}
CityLatitudes == {"35.5", "9999"}
CityLongitudes == {"139.691711", "abc"}
CityBodies == [name : CityNames, latitude : CityLatitudes, longitude : CityLongitudes]

\* serializers.CharField: the string with its surrounding whitespace
\* trimmed, None when nothing is left (blank is not allowed).
CharField(s) ==
    CASE s = " Tokyo " -> Some("Tokyo")
      [] s = "" -> None
      [] OTHER -> Some(s)

\* serializers.DecimalField(max_digits=9, decimal_places=6): the decimal, in
\* its six-place representation, None for what is no such decimal.
DecimalField(s) ==
    CASE s = "35.5" -> Some("35.500000")
      [] s = "139.691711" -> Some("139.691711")
      [] OTHER -> None

\* The UniqueValidator of name: no row has the name.
NameFree(rows, name) == \A c \in rows : c.name # name

\* serializer.is_valid(): the validated data, or None with errors.
CityIsValid(rows, body) ==
    LET name == CharField(body.name)
        latitude == DecimalField(body.latitude)
        longitude == DecimalField(body.longitude)
    IN  IF name = None \/ latitude = None \/ longitude = None THEN None
        ELSE IF ~NameFree(rows, Val(name)) THEN None
        ELSE Some([name |-> Val(name), latitude |-> Val(latitude),
                   longitude |-> Val(longitude)])

\* Lines 41-42 and 51: validate the body; errors are answered 400.
City_Validate(p, body) ==
    /\ cityview.calls < MaxCityCalls
    /\ cityview.pc[p] \in {"idle", "done"}
    /\ LET data == CityIsValid(cityview.rows, body)
       IN  cityview' =
             [cityview EXCEPT
                !.calls = @ + 1,
                !.data[p] = IF data = None THEN Some([name |-> body.name]) ELSE data,
                !.pc[p] = IF data = None THEN "done" ELSE "save",
                !.resp[p] = IF data = None
                            THEN Response([errors |-> "serializer.errors"],
                                          HTTP_400_BAD_REQUEST)
                            ELSE None]
    /\ UNCHANGED <<store, next_id, cache, now, ticks, calls, pc, local, resp, ops, hist,
                   resolved, before, sel>>

\* (mutant of City_Save: the table has no UNIQUE constraint on name)
City_Save_Unconstrained(p) ==
    /\ cityview.pc[p] = "save"
    /\ LET data == Val(cityview.data[p])
           city == [id |-> cityview.seq, name |-> data.name,
                    latitude |-> data.latitude, longitude |-> data.longitude]
       IN  cityview' = [cityview EXCEPT
                          !.rows = @ \cup {city},
                          !.seq = @ + 1,
                          !.pc[p] = "done",
                          !.resp[p] = Response(city, HTTP_201_CREATED)]
    /\ UNCHANGED <<store, next_id, cache, now, ticks, calls, pc, local, resp, ops, hist,
                   resolved, before, sel>>

\* Lines 43-50: serializer.save() inserts the city and post answers 201, or
\* the insert violates the constraint (IntegrityError) and post answers 400.
\* Whether a refused insert uses up an id depends on the database.
City_Save(p) ==
    /\ cityview.pc[p] = "save"
    /\ LET data == Val(cityview.data[p])
           city == [id |-> cityview.seq, name |-> data.name,
                    latitude |-> data.latitude, longitude |-> data.longitude]
       IN  IF NameFree(cityview.rows, data.name)
           THEN cityview' = [cityview EXCEPT
                               !.rows = @ \cup {city},
                               !.seq = @ + 1,
                               !.pc[p] = "done",
                               !.resp[p] = Response(city, HTTP_201_CREATED)]
           ELSE \E used \in {0, 1} :
                  cityview' = [cityview EXCEPT
                                 !.seq = @ + used,
                                 !.pc[p] = "done",
                                 !.resp[p] = Response([error |-> "City already exists."],
                                                      HTTP_400_BAD_REQUEST)]
    /\ UNCHANGED <<store, next_id, cache, now, ticks, calls, pc, local, resp, ops, hist,
                   resolved, before, sel>>

NextCity ==
    \/ \E p \in Procs, body \in CityBodies : City_Validate(p, body)
    \/ \E p \in Procs : City_Save(p)

SpecCity == Init /\ [][NextCity]_vars

(***************************************************************************)
(* C19.  City names are unique in every reachable state: CityView.post     *)
(* with a name an existing City has is answered 400 and leaves the set of  *)
(* cities as it was, and a successful CityView.post adds exactly one city, *)
(* under an id no city had.                                                *)
(***************************************************************************)
UniqueNames(rows) ==
    \A a, b \in rows : (a.name = b.name \/ a.id = b.id) => a = b

C19_CityNamesUnique ==
    [][LET rows == cityview.rows
           after == cityview'.rows
       IN  /\ UniqueNames(rows) /\ UniqueNames(after)
           /\ rows \subseteq after
           /\ \A p \in Procs :
                 \* validation lets only a free name through
                 /\ (cityview'.pc[p] = "save" /\ cityview.pc[p] # "save") =>
                       /\ NameFree(rows, Val(cityview'.data[p]).name)
                       /\ after = rows
                 \* a request turned down by validation changes nothing
                 /\ (/\ cityview'.pc[p] = "done" /\ cityview.pc[p] # "save"
                     /\ cityview'.calls > cityview.calls
                     /\ cityview'.resp[p] # cityview.resp[p]) =>
                       /\ after = rows
                       /\ Val(cityview'.resp[p]).status = HTTP_400_BAD_REQUEST
                 \* the insert
                 /\ (cityview.pc[p] = "save" /\ cityview'.pc[p] = "done") =>
                       LET answer == Val(cityview'.resp[p])
                           name == Val(cityview.data[p]).name
                       IN  IF NameFree(rows, name)
                           THEN /\ answer.status = HTTP_201_CREATED
                                /\ answer.data.name = name
                                /\ \A c \in rows : c.id # answer.data.id
                                /\ after = rows \cup {answer.data}
                                /\ Cardinality(after) = Cardinality(rows) + 1
                           ELSE /\ answer.status = HTTP_400_BAD_REQUEST
                                /\ after = rows]_vars

\* Two requests for one new name have both passed validation; one has
\* created the city, the other has been refused by the table.
C19_Witness ==
    \E p, q \in Procs :
        /\ p # q
        /\ cityview.pc[p] = "done" /\ cityview.pc[q] = "done"
        /\ Val(cityview.resp[p]).status = HTTP_201_CREATED
        /\ Val(cityview.resp[p]).data.name = "Tokyo"
        /\ Val(cityview.resp[q]) =
               [status |-> HTTP_400_BAD_REQUEST, data |-> [error |-> "City already exists."]]
        /\ Cardinality({c \in cityview.rows : c.name = "Tokyo"}) = 1

(***************************************************************************)
(* C20.  The distance_km post stores is computed with the metric the       *)
(* selector chose the event by: it equals the distance the selector        *)
(* computed for the selected event, and it is the least, under the metric  *)
(* it is stored in, of the distances from the city to the candidates.      *)
(***************************************************************************)
\* The distance post stores for a feature (line 238).
StoredDist(city, feature) ==
    geodesic(city.latitude, city.longitude,
             feature.geometry.coordinates[2], feature.geometry.coordinates[1])

C20_DistanceConsistent ==
    (sel # None /\ Val(sel).nearest # None) =>
        LET s == Val(sel)
            f == s.earthquakes.features
            distance_km == Val(s.new_rec.distance_km)
        IN  /\ distance_km = Dist(s.city, Val(s.nearest))
            /\ \A j \in 1..Len(f) : distance_km <= StoredDist(s.city, f[j])

(***************************************************************************)
(* Concurrent use on every kind of request (accepted, unknown city,        *)
(* unordered dates) with a feed and a database that can fail.  Every       *)
(* external call returns and the server keeps running each worker: a       *)
(* worker in the middle of post takes its next step.                       *)
(***************************************************************************)
NextLive ==
    \/ \E p \in Procs, body \in SeqRequests : Post_Validate(p, body)
    \/ \E p \in Procs : Step(p)
    \/ \E p \in Procs : Post_SaveFail(p)

SpecLive ==
    /\ Init
    /\ [][NextLive]_vars
    /\ \A p \in Procs : WF_vars(Step(p) \/ Post_SaveFail(p))

(***************************************************************************)
(* C21.  Bounded, terminating pipeline: when every external call returns,  *)
(* every invocation of post ends with a response, and it makes at most one *)
(* cache read, one table lookup, one feed request (no second request after *)
(* a failure), one insert and one cache write.                             *)
(***************************************************************************)
C21_BoundedPipeline ==
    /\ [](\A p \in Procs :
             /\ ops[p].cache_get <= 1
             /\ ops[p].filter <= 1
             /\ ops[p].fetch <= 1
             /\ ops[p].save <= 1
             /\ ops[p].cache_set <= 1)
    /\ \A p \in Procs : InFlight(p) ~> (Done(p) /\ resp[p] # None)

\* One invocation has ended on a feed failure after one feed request, and
\* another has gone through every step once and answered 201.
C21_Witness ==
    \E p, q \in Procs :
        /\ Done(p)
        /\ Status(p) = HTTP_502_BAD_GATEWAY
        /\ ops[p] = [NoOps EXCEPT !.cache_get = 1, !.filter = 1, !.fetch = 1]
        /\ Done(q)
        /\ Status(q) = HTTP_201_CREATED
        /\ ops[q] = [cache_get |-> 1, filter |-> 1, fetch |-> 1, save |-> 1,
                     cache_set |-> 1]

(***************************************************************************)
(* C22.  No cross-triple cache leakage: two requests that resolve to       *)
(* different (city, start date, end date) triples never use the same cache *)
(* key, and the payload post returns on a cache hit describes a result of  *)
(* the triple of the current request.                                      *)
(***************************************************************************)
\* The request bodies that pass validation.
Accepted == {b \in Requests : Validation(b.city_id, b.start, b.end).kind = "ok"}

\* The triple a request body resolves to.
TripleOf(b) ==
    <<Val(CityGet(b.city_id)).id, Val(parse_date(b.start)), Val(parse_date(b.end))>>

\* The triple a serialized result describes.
Describes(data) == <<data.city, DateOf(data.start_date), DateOf(data.end_date)>>

\* Worker p has answered from the cache.
CacheHit(p) ==
    Done(p) /\ Status(p) = HTTP_200_OK /\ ops[p] = [NoOps EXCEPT !.cache_get = 1]

C22_NoCrossTripleLeakage ==
    /\ \A p \in Procs, b \in Accepted :
          (Validated(p) /\ TripleOf(b) # Triple(local[p])) =>
              CacheKey(b.city_id, b.start, b.end) # local[p].cache_key
    /\ \A p \in Procs :
          /\ (Validated(p) /\ local[p].cache_key \in DOMAIN cache) =>
                Describes(cache[local[p].cache_key].value) = Triple(local[p])
          /\ CacheHit(p) => Describes(Data(p)) = Triple(local[p])

\* A request has been answered from the cache while the cache also holds an
\* unexpired entry of another triple.
C22_Witness ==
    \E p \in Procs, k \in DOMAIN cache :
        /\ CacheHit(p)
        /\ Live(k)
        /\ Describes(cache[k].value) # Triple(local[p])

(***************************************************************************)
(* C23.  The cache never runs ahead of the table: in every reachable       *)
(* state, under any interleaving of invocations, every unexpired cache     *)
(* entry written by post holds the serialization of a row that is in the   *)
(* table, for the triple the entry's key belongs to.                       *)
(***************************************************************************)
C23_CacheBehindStore ==
    \A k \in DOMAIN cache :
        Live(k) =>
            \E r \in store :
                /\ cache[k].value = Serialize(r)
                /\ \A b \in CoreRequests :
                      CacheKey(b.city_id, b.start, b.end) = k =>
                          TripleOf(b) = <<r.city, r.start_date, r.end_date>>

\* After two overlapping invocations have each inserted a row for one
\* triple, the unexpired entry holds the second row.
C23_Witness ==
    \E k \in DOMAIN cache, r1, r2 \in store :
        /\ Live(k)
        /\ r1.id # r2.id
        /\ <<r1.city, r1.start_date, r1.end_date>> = <<r2.city, r2.start_date, r2.end_date>>
        /\ cache[k].value = Serialize(r2)
        /\ \A r \in store : Val(r.id) <= Val(r2.id)

(***************************************************************************)
(* C24.  One answer per triple under concurrency: under any interleaving   *)
(* of overlapping invocations for one triple, every successful response    *)
(* for the triple, from the cache, from the table or freshly computed,     *)
(* carries the same row id and the same nearest-event and distance_km      *)
(* content.                                                                *)
(***************************************************************************)
\* Worker p has answered with a result.
Succeeded(p) == Done(p) /\ Status(p) \in {HTTP_200_OK, HTTP_201_CREATED}

\* The nearest-event and distance content of a stored row.
RowContent(r) ==
    [location |-> r.nearest_earthquake_location,
     magnitude |-> r.nearest_earthquake_magnitude,
     time |-> r.nearest_earthquake_time,
     distance_km |-> r.distance_km]

\* As stated: any two successful responses for one triple agree.
C24_OneAnswerPerTriple ==
    \A p, q \in Procs :
        (Succeeded(p) /\ Succeeded(q) /\ Triple(local[p]) = Triple(local[q])) =>
            /\ Data(p).id = Data(q).id
            /\ Content(Data(p)) = Content(Data(q))

\* As the code has it: every successful response carries the id and the
\* content of a row stored for its triple, and two responses for one triple
\* agree while the triple has a single row.
C24_AnswerIsStoredRow ==
    /\ \A p \in Procs :
          Succeeded(p) =>
              \E r \in RowsOf(Triple(local[p])) :
                  /\ Data(p).id = r.id
                  /\ Content(Data(p)) = RowContent(r)
    /\ \A p, q \in Procs :
          (/\ Succeeded(p) /\ Succeeded(q)
           /\ Triple(local[p]) = Triple(local[q])
           /\ Cardinality(RowsOf(Triple(local[p]))) = 1) =>
              /\ Data(p).id = Data(q).id
              /\ Content(Data(p)) = Content(Data(q))

\* Two overlapping invocations for one triple have answered with the same
\* row: one created it, the other found it in the table.
C24_Witness ==
    \E p, q \in Procs :
        /\ p # q
        /\ hist[p].overlapped /\ hist[q].overlapped
        /\ Succeeded(p) /\ Status(p) = HTTP_201_CREATED
        /\ Succeeded(q) /\ Status(q) = HTTP_200_OK /\ ops[q].filter = 1
        /\ Triple(local[p]) = Triple(local[q])
        /\ Data(p).id = Data(q).id
        /\ Content(Data(p)) # EmptyContent

(***************************************************************************)
(* C25.  Independence of triples: an invocation of post for triple T, on   *)
(* any path and under any interleaving, leaves unchanged every cache entry *)
(* whose key belongs to another triple and every row of another triple,    *)
(* and its outcome does not depend on them: each step does what it would   *)
(* do with the entries and the rows of the other triples taken away.       *)
(***************************************************************************)
\* Key k is the key of a request for a triple other than t.
KeyOfOther(k, t) ==
    \E b \in Accepted : CacheKey(b.city_id, b.start, b.end) = k /\ TripleOf(b) # t

\* The cache without the entries of the triples other than t.
OwnCache(t) == [k \in {j \in DOMAIN cache : ~KeyOfOther(j, t)} |-> cache[k]]

\* Worker p takes a step of an invocation in progress.
StepOf(p) == InFlight(p) /\ ops'[p] # ops[p]

\* The step leaves the entries and rows of the other triples as they were
\* and adds none.
FrameOf(t) ==
    /\ \A k \in DOMAIN cache :
          KeyOfOther(k, t) => k \in DOMAIN cache' /\ cache'[k] = cache[k]
    /\ \A k \in DOMAIN cache' \ DOMAIN cache : ~KeyOfOther(k, t)
    /\ \A r \in store : r \in store'
    /\ \A r \in store' \ store : <<r.city, r.start_date, r.end_date>> = t

\* The step of worker p computed from worker p's request and from the
\* entries and rows of its own triple t alone.
OutcomeOf(p, t) ==
    LET l == local[p]
    IN  CASE pc[p] = "cache_check" ->
                LET hit == cache_get(OwnCache(t), l.cache_key, now)
                IN  IF hit # None
                    THEN pc'[p] = "done" /\ resp'[p] = Response(Val(hit), HTTP_200_OK)
                    ELSE pc'[p] = "store_check"
          [] pc[p] = "store_check" ->
                LET found == First(Filter(RowsOf(t), Val(l.city), Val(l.start_date),
                                          Val(l.end_date)))
                IN  /\ local'[p].existing_result = found
                    /\ pc'[p] = IF found # None THEN "store_hit" ELSE "feed_fetch"
          [] pc[p] = "store_hit" ->
                /\ pc'[p] = "done"
                /\ resp'[p] = Response(Serialize(Val(l.existing_result)), HTTP_200_OK)
                /\ cache_get(cache', l.cache_key, now) = Some(Val(resp'[p]).data)
          [] pc[p] = "feed_fetch" ->
                \/ pc'[p] = "done" /\ Val(resp'[p]).status = HTTP_502_BAD_GATEWAY
                \/ /\ pc'[p] = "persist"
                   /\ \E eq_data \in FeedPayloads :
                         local'[p].nearest =
                             find_nearest_earthquake(Val(l.city).latitude,
                                                     Val(l.city).longitude, eq_data)
          [] pc[p] = "persist" ->
                \/ /\ pc'[p] = "done"
                   /\ Val(resp'[p]).status = HTTP_500_INTERNAL_SERVER_ERROR
                   /\ store' = store
                \/ /\ pc'[p] = "cache_write"
                   /\ RowContent(Val(local'[p].new_rec)) = RowContent(Val(l.new_rec))
                   /\ store' = store \cup {Val(local'[p].new_rec)}
          [] pc[p] = "cache_write" ->
                /\ pc'[p] = "done"
                /\ resp'[p] = Response(Serialize(Val(l.new_rec)), HTTP_201_CREATED)
                /\ cache_get(cache', l.cache_key, now) = Some(Val(resp'[p]).data)

C25_TriplesIndependent ==
    [][\A p \in Procs :
         /\ StepOf(p) => FrameOf(Triple(local[p])) /\ OutcomeOf(p, Triple(local[p]))
         /\ (~InFlight(p) /\ calls' # calls /\ pc'[p] # "idle" /\ ops'[p] = NoOps
                /\ (pc'[p] # pc[p] \/ resp'[p] # resp[p] \/ local'[p] # local[p])) =>
               cache' = cache /\ store' = store]_vars

\* An invocation has created and cached the row of its triple while the
\* cache holds an unexpired entry, and the table a row, of another triple.
C25_Witness ==
    \E p \in Procs, k \in DOMAIN cache, r \in store :
        /\ Done(p)
        /\ Status(p) = HTTP_201_CREATED
        /\ KeyOfOther(k, Triple(local[p]))
        /\ Live(k)
        /\ Describes(cache[k].value) = <<r.city, r.start_date, r.end_date>>
        /\ <<r.city, r.start_date, r.end_date>> # Triple(local[p])
        /\ Val(r.id) < Val(Data(p).id)

=============================================================================
